---- MODULE Spec2Model ----
(***************************************************************************)
(* Model of the NFT registry contract in src/src/lib.rs (NftContract).     *)
(* The persisted contract is one blob stored under STORAGE_CONTRACT_KEY;   *)
(* every public entry point loads it, runs the internal implementation on  *)
(* the in-memory copy and saves it back.  A failed assert!/expect panics,  *)
(* so the save at the end of the entry point is never reached.             *)
(***************************************************************************)
EXTENDS Integers, Sequences, FiniteSets, TLC

\* ---------------------------------------------------------------- bounds
\* Size of the identity space the model explores (the source uses 10_000).
MaxSupply == 2

\* L1X_NFT_TOTAL_SUPPLY, scaled down to the explored identity space.
L1X_NFT_TOTAL_SUPPLY == MaxSupply

\* The addresses that take part; ContractOwner is contract_owner_address().
Address == {"O", "A", "B"}
ContractOwner == "O"

\* Addresses that receive tokens in mint and transfer calls.
Receivers == {"O", "A"}

\* Addresses named as spender in nft_approve calls.
Spenders == {"B"}

\* Addresses that grant, and that are named as operator, in
\* nft_set_approval_for_all calls.
Grantors == {"A"}
Operators == {"B"}

\* Token ids offered to the entry points: 0, the valid range, and one above it.
TokenIds == 0..(L1X_NFT_TOTAL_SUPPLY + 1)

\* Outcome of a call: NoPanic, or the failure the panic stands for.  The
\* failures are named as in the error taxonomy; the panics that stand for
\* them are
\*   AlreadyBurned    "Burned Token ID .. cannot be minted again"
\*   AlreadyMinted    "Token ID .. already exist"
\*   SupplyExceeded   "Max supply reached" (mint_id_to)
\*   SupplyExhausted  "Max supply reached" (mint_to)
\*   NotAuthorized    "Only the contract owner can call this method",
\*                    "Caller .. is not Owner and is not an authorized operator ..",
\*                    "Not Authorized, the caller, neither an owner, nor .."
\*   UnknownToken     "Token ID .. Not Minted or Doesn't exist",
\*                    "TokenId: .. is not minted or doesn't exist in the contract"
\*   OwnerMismatch    "Not Authorized, From: .. & Owner: .. mismatch"
NoPanic == "Ok"

\* A method that returns no token id (or panicked) returns NoRet; a returned
\* id is the one-element sequence Ret(id).
NoRet == <<>>
Ret(id) == <<id>>

\* The contract as stored under STORAGE_CONTRACT_KEY: a record of the fields
\* of NftContract (the metadata plays no part in the registry).
VARIABLES storage

vars == <<storage>>

\* ------------------------------------------------------- store primitives
\* LookupMap::contains_key / get(..).is_some()
contains_key(m, k) == k \in DOMAIN m

\* LookupMap::insert
insert(m, k, v) == [x \in (DOMAIN m) \cup {k} |-> IF x = k THEN v ELSE m[x]]

\* LookupMap::remove
remove(m, k) == [x \in (DOMAIN m) \ {k} |-> m[x]]

\* push with the id put in front.
push_front(v, id) == <<id>> \o v

\* Vector::push
push(v, id) == Append(v, id)

\* swap_remove with the slot overwritten but the vector not shortened.
swap_remove_no_pop(v, idx) == [v EXCEPT ![idx + 1] = v[Len(v)]]

\* swap_remove with the tail shifted down over the slot.
swap_remove_shift(v, idx) ==
    [i \in 1..(Len(v) - 1) |-> IF i < idx + 1 THEN v[i] ELSE v[i + 1]]

\* Vector::swap_remove(idx), idx zero-based: the slot takes the last element,
\* then the vector is shortened by one.
swap_remove(v, idx) ==
    [i \in 1..(Len(v) - 1) |-> IF i = idx + 1 THEN v[Len(v)] ELSE v[i]]

\* Vector::get(idx), idx zero-based
vec_get(v, idx) == v[idx + 1]

\* OwnerInfo::new
OwnerInfo(address, token_idx) == [address |-> address, token_idx |-> token_idx]

\* Result of an internal method: the in-memory contract, the panic (if any)
\* and the returned token id (if any).
Result(c, panic, ret) == [contract |-> c, panic |-> panic, ret |-> ret]

\* ------------------------------------------------------ internal methods
\* update_swapped_ref with the corrective index update left out.
update_swapped_ref_skipped(owners, swapped_token_id, token_idx) == owners

\* Step 3 of internal_remove_token: the token moved into the freed slot gets
\* that slot's index in owner_of.
update_swapped_ref(owners, swapped_token_id, token_idx) ==
    [owners EXCEPT ![swapped_token_id].token_idx = token_idx]

\* delete_token_entries with the approval entry left in place.
delete_token_entries_keep_approval(c, id) == [c EXCEPT !.owner_of = remove(@, id)]

\* End of internal_remove_token: the id leaves owner_of and get_approved.
delete_token_entries(c, id) ==
    [c EXCEPT !.owner_of = remove(@, id), !.get_approved = remove(@, id)]

internal_remove_token(c, id) ==
    IF ~contains_key(c.owner_of, id) THEN Result(c, "NoOwner", NoRet)
    ELSE LET owner_info == c.owner_of[id] IN
    IF ~contains_key(c.balance_of, owner_info.address)
    THEN Result(c, "NotEnoughFunds", NoRet)
    ELSE LET balance_from == c.balance_of[owner_info.address] IN
    IF Len(balance_from) = 0 \/ owner_info.token_idx >= Len(balance_from)
    THEN Result(c, "IndexOutOfBounds", NoRet)
    ELSE
      LET is_last  == owner_info.token_idx = Len(balance_from) - 1
          new_vec  == swap_remove(balance_from, owner_info.token_idx)
          swapped_token_id == vec_get(new_vec, owner_info.token_idx)
      IN
      IF ~is_last /\ ~contains_key(c.owner_of, swapped_token_id)
      THEN Result([c EXCEPT !.balance_of = [@ EXCEPT ![owner_info.address] = new_vec]],
                  "NoOwnerOfSwapped", NoRet)
      ELSE
        LET owners1 == IF is_last THEN c.owner_of
                       ELSE update_swapped_ref(c.owner_of, swapped_token_id,
                                               owner_info.token_idx)
            c1 == [c EXCEPT !.balance_of = [@ EXCEPT ![owner_info.address] = new_vec],
                            !.owner_of = owners1]
        IN Result(delete_token_entries(c1, id), NoPanic, NoRet)

internal_add_token_to(c, to, id) ==
    LET balances1  == IF contains_key(c.balance_of, to) THEN c.balance_of
                      ELSE insert(c.balance_of, to, <<>>)
        balance_to == push(balances1[to], id)
        last_idx   == Len(balance_to) - 1
    IN [c EXCEPT !.balance_of = [balances1 EXCEPT ![to] = balance_to],
                 !.owner_of = insert(@, id, OwnerInfo(to, last_idx))]

\* is_burned with the burned set never consulted.
is_burned_unchecked(c, id) == FALSE

\* burned_nfts.contains(&id)
is_burned(c, id) == id \in c.burned_nfts

\* mint_id_to with minted_total left as it was.
mint_id_to_uncounted(c, to, id) ==
    IF is_burned(c, id) THEN Result(c, "AlreadyBurned", NoRet)
    ELSE IF contains_key(c.owner_of, id) THEN Result(c, "AlreadyMinted", NoRet)
    ELSE IF ~(id <= L1X_NFT_TOTAL_SUPPLY) THEN Result(c, "SupplyExceeded", NoRet)
    ELSE Result(internal_add_token_to(c, to, id), NoPanic, Ret(id))

mint_id_to(c, to, id) ==
    IF is_burned(c, id) THEN Result(c, "AlreadyBurned", NoRet)
    ELSE IF contains_key(c.owner_of, id) THEN Result(c, "AlreadyMinted", NoRet)
    ELSE IF ~(id <= L1X_NFT_TOTAL_SUPPLY) THEN Result(c, "SupplyExceeded", NoRet)
    ELSE Result([internal_add_token_to(c, to, id) EXCEPT !.minted_total = @ + 1],
                NoPanic, Ret(id))

\* scan with no owned id skipped.
scan_no_skip(c, new_token_id) == new_token_id

\* The while loop of mint_to: the first id from new_token_id on that has no
\* owner, or L1X_NFT_TOTAL_SUPPLY + 1 if there is none.
RECURSIVE scan(_, _)
scan(c, new_token_id) ==
    IF new_token_id <= L1X_NFT_TOTAL_SUPPLY /\ contains_key(c.owner_of, new_token_id)
    THEN scan(c, new_token_id + 1)
    ELSE new_token_id

\* mint_to with the scan started at the cursor itself.
mint_to_from_cursor(c, to) ==
    LET new_token_id == scan(c, c.current_token_id) IN
    IF ~(new_token_id <= L1X_NFT_TOTAL_SUPPLY) THEN Result(c, "SupplyExhausted", NoRet)
    ELSE LET c1 == [c EXCEPT !.current_token_id = new_token_id]
             r  == mint_id_to(c1, to, new_token_id)
         IN Result(r.contract, r.panic, IF r.panic = NoPanic THEN Ret(new_token_id) ELSE NoRet)

mint_to(c, to) ==
    LET new_token_id == scan(c, c.current_token_id + 1) IN
    IF ~(new_token_id <= L1X_NFT_TOTAL_SUPPLY) THEN Result(c, "SupplyExhausted", NoRet)
    ELSE LET c1 == [c EXCEPT !.current_token_id = new_token_id]
             r  == mint_id_to(c1, to, new_token_id)
         IN Result(r.contract, r.panic, IF r.panic = NoPanic THEN Ret(new_token_id) ELSE NoRet)

\* burn with the token's owner let through as well as the contract owner.
burn_by_token_owner(c, caller, id) ==
    IF ~contains_key(c.owner_of, id) THEN Result(c, "UnknownToken", NoRet)
    ELSE IF caller # ContractOwner /\ caller # c.owner_of[id].address
    THEN Result(c, "NotAuthorized", NoRet)
    ELSE Result([internal_remove_token(c, id).contract EXCEPT !.burned_nfts = @ \cup {id}],
                NoPanic, NoRet)

burn(c, caller, id) ==
    IF caller # ContractOwner THEN Result(c, "NotAuthorized", NoRet)
    ELSE IF ~contains_key(c.owner_of, id) THEN Result(c, "UnknownToken", NoRet)
    ELSE LET r == internal_remove_token(c, id) IN
         IF r.panic # NoPanic THEN r
         ELSE Result([r.contract EXCEPT !.burned_nfts = @ \cup {id}], NoPanic, NoRet)

\* is_approved_operator with no operator ever recognised.
is_approved_operator_never(c, owner, caller) == FALSE

\* is_approved_for_all.get(owner).and_then(|m| m.get(caller)).copied().unwrap_or(false)
is_approved_operator(c, owner, caller) ==
    /\ contains_key(c.is_approved_for_all, owner)
    /\ contains_key(c.is_approved_for_all[owner], caller)
    /\ c.is_approved_for_all[owner][caller]

\* approve with the token's approved spender let through as well.
approve_by_spender(c, caller, spender, id) ==
    IF ~contains_key(c.owner_of, id) THEN Result(c, "UnknownToken", NoRet)
    ELSE LET owner == c.owner_of[id] IN
         IF ~(\/ caller = owner.address
              \/ is_approved_operator(c, owner.address, caller)
              \/ (contains_key(c.get_approved, id) /\ c.get_approved[id] = caller))
         THEN Result(c, "NotAuthorized", NoRet)
         ELSE Result([c EXCEPT !.get_approved = insert(@, id, spender)], NoPanic, NoRet)

approve(c, caller, spender, id) ==
    IF ~contains_key(c.owner_of, id) THEN Result(c, "UnknownToken", NoRet)
    ELSE LET owner == c.owner_of[id]
             caller_is_owner == caller = owner.address
         IN IF ~(caller_is_owner \/ is_approved_operator(c, owner.address, caller))
            THEN Result(c, "NotAuthorized", NoRet)
            ELSE Result([c EXCEPT !.get_approved = insert(@, id, spender)], NoPanic, NoRet)

\* set_approval_for_all with the caller's map replaced by a fresh one.
set_approval_for_all_fresh_map(c, caller, operator, approved) ==
    Result([c EXCEPT !.is_approved_for_all =
                         insert(@, caller, insert(<<>>, operator, approved))],
           NoPanic, NoRet)

set_approval_for_all(c, caller, operator, approved) ==
    IF contains_key(c.is_approved_for_all, caller)
    THEN Result([c EXCEPT !.is_approved_for_all[caller] = insert(@, operator, approved)],
                NoPanic, NoRet)
    ELSE Result([c EXCEPT !.is_approved_for_all =
                              insert(@, caller, insert(<<>>, operator, approved))],
                NoPanic, NoRet)

\* transfer_from with the authorization assert ahead of the owner match.
transfer_from_auth_first(c, caller, from, to, id) ==
    IF ~contains_key(c.owner_of, id) THEN Result(c, "UnknownToken", NoRet)
    ELSE LET owner_info == c.owner_of[id]
             caller_is_owner == owner_info.address = caller
             is_approved_spender ==
                 contains_key(c.get_approved, id) /\ c.get_approved[id] = caller
    IN IF ~(caller_is_owner \/ is_approved_operator(c, from, caller) \/ is_approved_spender)
       THEN Result(c, "NotAuthorized", NoRet)
       ELSE IF from # owner_info.address THEN Result(c, "OwnerMismatch", NoRet)
       ELSE Result(internal_add_token_to(internal_remove_token(c, id).contract, to, id),
                   NoPanic, NoRet)

transfer_from(c, caller, from, to, id) ==
    IF ~contains_key(c.owner_of, id) THEN Result(c, "UnknownToken", NoRet)
    ELSE LET owner_info == c.owner_of[id] IN
    IF from # owner_info.address THEN Result(c, "OwnerMismatch", NoRet)
    ELSE LET caller_is_owner == owner_info.address = caller
             is_approved_spender ==
                 contains_key(c.get_approved, id) /\ c.get_approved[id] = caller
    IN IF ~(caller_is_owner \/ is_approved_operator(c, from, caller) \/ is_approved_spender)
       THEN Result(c, "NotAuthorized", NoRet)
       ELSE LET r == internal_remove_token(c, id) IN
            IF r.panic # NoPanic THEN r
            ELSE Result(internal_add_token_to(r.contract, to, id), NoPanic, NoRet)

balance_of(c, owner) ==
    IF contains_key(c.balance_of, owner) THEN Len(c.balance_of[owner]) ELSE 0

\* ---------------------------------------------------------- entry points
\* save with the in-memory contract written back whatever the outcome.
save_always(loaded, r) == r.contract

\* contract.save() at the end of an entry point: reached only when the
\* internal call returned, so a panic leaves the stored contract as loaded.
save(loaded, r) == IF r.panic = NoPanic THEN r.contract ELSE loaded

nft_mint_to(to) == storage' = save(storage, mint_to(storage, to))

nft_mint_id_to(to, id) == storage' = save(storage, mint_id_to(storage, to, id))

nft_burn(caller, id) == storage' = save(storage, burn(storage, caller, id))

nft_approve(caller, spender, id) ==
    storage' = save(storage, approve(storage, caller, spender, id))

nft_set_approval_for_all(caller, operator, approved) ==
    storage' = save(storage, set_approval_for_all(storage, caller, operator, approved))

nft_transfer_from(caller, from, to, id) ==
    storage' = save(storage, transfer_from(storage, caller, from, to, id))

\* NftContract::new
Init ==
    storage = [current_token_id |-> 0,
               minted_total |-> 0,
               balance_of |-> <<>>,
               owner_of |-> <<>>,
               get_approved |-> <<>>,
               is_approved_for_all |-> <<>>,
               burned_nfts |-> {}]

Next ==
    \/ \E to \in Receivers : nft_mint_to(to)
    \/ \E to \in Receivers, id \in TokenIds : nft_mint_id_to(to, id)
    \/ \E caller \in Address, id \in TokenIds : nft_burn(caller, id)
    \/ \E caller \in Address, spender \in Spenders, id \in TokenIds :
          nft_approve(caller, spender, id)
    \/ \E caller \in Grantors, operator \in Operators, approved \in BOOLEAN :
          nft_set_approval_for_all(caller, operator, approved)
    \/ \E caller \in Address, from \in Address, to \in Receivers, id \in TokenIds :
          nft_transfer_from(caller, from, to, id)

Spec == Init /\ [][Next]_vars

\* ------------------------------------------------------------ vocabulary
\* The Reverse Index is owner_of, the Owner Collections are balance_of, the
\* Approval Entries are get_approved, the Operator Approvals are
\* is_approved_for_all, the allocation cursor is current_token_id.
Live == DOMAIN storage.owner_of
Burned == storage.burned_nfts
ValidIds == 1..L1X_NFT_TOTAL_SUPPLY

\* The slots of the Owner Collections: <<owner, zero-based position>>.
Slots == {<<a, p>> \in (DOMAIN storage.balance_of) \X (0..(L1X_NFT_TOTAL_SUPPLY + 1)) :
             p < Len(storage.balance_of[a])}
SlotId(sl) == storage.balance_of[sl[1]][sl[2] + 1]

\* OperatorApproval[owner][operator] == true, in contract c.
OperatorApproved(c, owner, operator) ==
    /\ owner \in DOMAIN c.is_approved_for_all
    /\ operator \in DOMAIN c.is_approved_for_all[owner]
    /\ c.is_approved_for_all[owner][operator] = TRUE

\* ApprovalEntry[id] == spender, in contract c.
ApprovedSpender(c, id, spender) ==
    id \in DOMAIN c.get_approved /\ c.get_approved[id] = spender

Min(S) == CHOOSE x \in S : \A y \in S : x <= y

\* ------------------------------------------------------------------- C1
\* C1: the Reverse Index and the Owner Collections are in one-to-one
\* correspondence: every live id with entry {owner, pos} is at slot pos of
\* owner's collection, every slot holds a live id whose entry points back to
\* that owner and slot, and no id occurs in two slots.
C1_IndexMatchesCollections ==
    /\ \A id \in Live :
          LET oi == storage.owner_of[id] IN
          /\ <<oi.address, oi.token_idx>> \in Slots
          /\ SlotId(<<oi.address, oi.token_idx>>) = id
    /\ \A sl \in Slots :
          /\ SlotId(sl) \in Live
          /\ storage.owner_of[SlotId(sl)] = OwnerInfo(sl[1], sl[2])
    /\ \A s1 \in Slots, s2 \in Slots : SlotId(s1) = SlotId(s2) => s1 = s2

\* A state past mints, a burn and removals: an id is burned, one address
\* has held tokens and lost them all, and another holds two ids out of
\* ascending order.
C1_Witness ==
    /\ Burned # {}
    /\ \E a \in DOMAIN storage.balance_of, b \in DOMAIN storage.balance_of :
          /\ a # b
          /\ Len(storage.balance_of[b]) = 0
          /\ Len(storage.balance_of[a]) = 2
          /\ storage.balance_of[a][1] > storage.balance_of[a][2]

\* ------------------------------------------------------------------- C2
C2_BurnedExcluded ==
    \A id \in Burned :
       /\ id \notin Live
       /\ \A to \in Address :
             /\ mint_id_to(storage, to, id).panic = "AlreadyBurned"
             /\ LET r == mint_to(storage, to) IN r.panic = NoPanic => r.ret # Ret(id)

\* C2: Burned is terminal: the burned set never loses a member, and a burned
\* id has no Reverse Index entry, is never returned by mint and is refused by
\* mint_with_id with AlreadyBurned, in every later state.
C2_BurnedIsTerminal ==
    /\ []C2_BurnedExcluded
    /\ [][storage.burned_nfts \subseteq storage'.burned_nfts]_vars

\* A burned id lies above the cursor, where the scan of mint would find it,
\* and mint is refused.
C2_Witness ==
    \E id \in Burned :
       /\ id > storage.current_token_id
       /\ \A to \in Receivers : mint_to(storage, to).panic # NoPanic

\* ------------------------------------------------------------------- C3
\* C3: the identities that are live or burned number at most MAX_SUPPLY,
\* and once the cursor has reached MAX_SUPPLY (as it has after MAX_SUPPLY
\* successful mints) every mint fails with SupplyExhausted.
C3_SupplyNeverExceeded ==
    /\ Cardinality(Live \cup Burned) <= L1X_NFT_TOTAL_SUPPLY
    /\ storage.current_token_id >= L1X_NFT_TOTAL_SUPPLY =>
          \A to \in Address : mint_to(storage, to).panic = "SupplyExhausted"

\* ------------------------------------------------------------------- C4
\* C4: every live or burned identity lies in [1, MAX_SUPPLY]; mint_with_id
\* refuses every id outside the range (with SupplyExceeded above it) and
\* mint returns no id outside it.
C4_IdentitiesInRange ==
    /\ Live \cup Burned \subseteq ValidIds
    /\ \A to \in Address, id \in TokenIds :
          id > L1X_NFT_TOTAL_SUPPLY =>
             mint_id_to(storage, to, id).panic = "SupplyExceeded"
    /\ \A to \in Address :
          LET r == mint_to(storage, to) IN
          r.panic = NoPanic => \E id \in ValidIds : r.ret = Ret(id)

\* ------------------------------------------------------------------- C5
\* P holds of the outcome of every call of an entry point in the current
\* state, over all callers and arguments.
EveryMint(P(_)) == \A to \in Address : P(mint_to(storage, to))

EveryMintWithId(P(_)) ==
    \A to \in Address, id \in TokenIds : P(mint_id_to(storage, to, id))

EveryBurn(P(_)) == \A caller \in Address, id \in TokenIds : P(burn(storage, caller, id))

EveryApprove(P(_)) ==
    \A caller \in Address, spender \in Address, id \in TokenIds :
       P(approve(storage, caller, spender, id))

EveryOperatorApproval(P(_)) ==
    \A caller \in Address, operator \in Address, approved \in BOOLEAN :
       P(set_approval_for_all(storage, caller, operator, approved))

EveryTransfer(P(_)) ==
    \A caller \in Address, from \in Address, to \in Address, id \in TokenIds :
       P(transfer_from(storage, caller, from, to, id))

EveryCall(P(_)) ==
    /\ EveryMint(P) /\ EveryMintWithId(P) /\ EveryBurn(P)
    /\ EveryApprove(P) /\ EveryOperatorApproval(P) /\ EveryTransfer(P)

\* A call that failed has left the stored contract as it was.
FailedCallSavesNothing(r) == r.panic # NoPanic => save(storage, r) = storage

Unowned ==
    {id \in (storage.current_token_id + 1)..L1X_NFT_TOTAL_SUPPLY : id \notin Live}

C6_MintEffect(to, r) ==
    LET after == save(storage, r) IN
    /\ r.ret = Ret(Min(Unowned))
    /\ after.owner_of = insert(storage.owner_of, Min(Unowned),
                               OwnerInfo(to, balance_of(storage, to)))
    /\ after.current_token_id = Min(Unowned)

\* C6 as claimed: mint succeeds exactly when some identity above the cursor
\* has no Reverse Index entry, takes the smallest such, and fails only with
\* SupplyExhausted.
C6_MintTakesSmallestUnowned ==
    \A to \in Address :
       LET r == mint_to(storage, to) IN
       /\ r.panic = NoPanic <=> Unowned # {}
       /\ r.panic = NoPanic => C6_MintEffect(to, r)
       /\ r.panic # NoPanic => r.panic = "SupplyExhausted"

\* C6 amended: mint succeeds exactly when some identity above the cursor has
\* no Reverse Index entry and the smallest such is not burned; it then takes
\* that identity; it fails with SupplyExhausted when there is no such
\* identity and with AlreadyBurned when the smallest one is burned.
C6_MintTakesSmallestUnownedUnlessBurned ==
    \A to \in Address :
       LET r == mint_to(storage, to) IN
       /\ r.panic = NoPanic <=> (Unowned # {} /\ Min(Unowned) \notin Burned)
       /\ r.panic = NoPanic => C6_MintEffect(to, r)
       /\ Unowned = {} => r.panic = "SupplyExhausted"
       /\ (Unowned # {} /\ Min(Unowned) \in Burned) => r.panic = "AlreadyBurned"

\* The id right above the cursor is owned (it was minted by id) and the next
\* mint passes over it to the one after.
C6_Witness ==
    /\ storage.current_token_id + 1 \in Live
    /\ \E to \in Receivers :
          LET r == mint_to(storage, to) IN
          r.panic = NoPanic /\ r.ret = Ret(storage.current_token_id + 2)

\* ------------------------------------------------------------------- C7
\* C7: a transfer of a live id from its current owner succeeds iff the caller
\* is the owner, an approved operator of the owner or the approved spender
\* of the id; it makes `to` the owner, takes one from balance_of(from) and
\* adds one to balance_of(to) (neither changes when from == to).
C7_TransferAuthorization ==
    [](
    \A caller \in Address, to \in Address, id \in Live :
       LET from  == storage.owner_of[id].address
           r     == transfer_from(storage, caller, from, to, id)
           after == save(storage, r)
       IN
       /\ r.panic = NoPanic <=>
             \/ caller = from
             \/ OperatorApproved(storage, from, caller)
             \/ ApprovedSpender(storage, id, caller)
       /\ r.panic = NoPanic =>
             /\ id \in DOMAIN after.owner_of /\ after.owner_of[id].address = to
             /\ from # to =>
                   /\ balance_of(after, from) = balance_of(storage, from) - 1
                   /\ balance_of(after, to) = balance_of(storage, to) + 1
             /\ from = to => balance_of(after, from) = balance_of(storage, from)
    )

\* An operator of the owner, with no approval entry on the token, is about
\* to move a token of an owner that holds two to another address.
C7_Witness ==
    \E caller \in Address, to \in Address, id \in Live :
       LET from == storage.owner_of[id].address IN
       /\ caller # from /\ to # from
       /\ OperatorApproved(storage, from, caller)
       /\ id \notin DOMAIN storage.get_approved
       /\ balance_of(storage, from) = 2
       /\ transfer_from(storage, caller, from, to, id).panic = NoPanic

\* ------------------------------------------------------------------- C8
\* C8 as claimed: a successful transfer leaves the token's Approval Entry as
\* it was.
C8_TransferKeepsApproval ==
    \A caller \in Address, from \in Address, to \in Address,
       id \in DOMAIN storage.get_approved :
       LET r == transfer_from(storage, caller, from, to, id) IN
       r.panic = NoPanic =>
          ApprovedSpender(save(storage, r), id, storage.get_approved[id])

\* C8 amended: a successful transfer removes the token's Approval Entry, so
\* the spender it named passes the authorization check for the token
\* afterwards only as its owner or as an operator of its owner.
C8_TransferClearsApproval ==
    [](
    \A caller \in Address, from \in Address, to \in Address,
       id \in DOMAIN storage.get_approved :
       LET r     == transfer_from(storage, caller, from, to, id)
           after == save(storage, r)
           s     == storage.get_approved[id]
       IN r.panic = NoPanic =>
             /\ id \notin DOMAIN after.get_approved
             /\ \A to2 \in Address :
                   transfer_from(after, s, to, to2, id).panic = NoPanic =>
                      (s = to \/ OperatorApproved(after, to, s))
    )

\* The approved spender of a token, who neither owns it nor is an operator
\* of its owner, is about to transfer it to a third address.
C8_Witness ==
    \E to \in Address, id \in DOMAIN storage.get_approved :
       LET s    == storage.get_approved[id]
           from == storage.owner_of[id].address
       IN /\ s # from /\ to # from /\ to # s
          /\ ~OperatorApproved(storage, from, s)
          /\ transfer_from(storage, s, from, to, id).panic = NoPanic

\* ------------------------------------------------------------------- C9
\* spender passes no transfer of id, whatever from and to it names.
CannotTransfer(c, spender, id) ==
    \A from \in Address, to \in Address :
       transfer_from(c, spender, from, to, id).panic # NoPanic

\* Right after a successful transfer of id to another address, the address
\* that was its approved spender, unless it is the new owner or an operator
\* of the new owner, passes no transfer of id.
C9_SpenderLosesToken ==
    \A caller \in Address, from \in Address, to \in Address,
       id \in DOMAIN storage.get_approved :
       LET r     == transfer_from(storage, caller, from, to, id)
           after == save(storage, r)
           s     == storage.get_approved[id]
       IN (r.panic = NoPanic /\ from # to /\ s # to /\ ~OperatorApproved(after, to, s))
             => CannotTransfer(after, s, id)

\* An Approval Entry appears or changes only in a step that is a successful
\* approve of that id for that spender.
C9_EntryOnlyByApprove ==
    \A id \in DOMAIN storage'.get_approved :
       (id \notin DOMAIN storage.get_approved
          \/ storage.get_approved[id] # storage'.get_approved[id])
       => \E caller \in Address :
             LET r == approve(storage, caller, storage'.get_approved[id], id) IN
             r.panic = NoPanic /\ storage' = r.contract

\* C9: the per-token approval is reset when the owner changes: after a
\* successful transfer of id to a different address, the former approved
\* spender (if neither the new owner nor one of its operators) cannot
\* transfer id, and an Approval Entry for id comes back only by a new
\* successful approve.
C9_OwnerChangeResetsApproval ==
    /\ []C9_SpenderLosesToken
    /\ [][C9_EntryOnlyByApprove]_vars

\* The approved spender of a token is about to transfer it to an address that
\* is not itself and has not made it an operator, while the owner it takes
\* the token from has.
C9_Witness ==
    \E to \in Address, id \in DOMAIN storage.get_approved :
       LET s    == storage.get_approved[id]
           from == storage.owner_of[id].address
           r    == transfer_from(storage, s, from, to, id)
       IN /\ s # from /\ to # from /\ to # s
          /\ OperatorApproved(storage, from, s)
          /\ r.panic = NoPanic
          /\ ~OperatorApproved(r.contract, to, s)
          /\ CannotTransfer(r.contract, s, id)

\* ------------------------------------------------------------------ C10
\* C10: burn succeeds iff the caller is the contract owner and the id is
\* live; any other caller, be it the token's owner, an operator of that owner
\* or the token's approved spender, gets NotAuthorized and changes nothing;
\* the contract owner burns a live token whoever holds it.
C10_BurnOnlyByContractOwner ==
    \A caller \in Address, id \in TokenIds :
       LET r     == burn(storage, caller, id)
           after == save(storage, r)
       IN
       /\ r.panic = NoPanic <=> (caller = ContractOwner /\ id \in Live)
       /\ caller # ContractOwner => (r.panic = "NotAuthorized" /\ after = storage)
       /\ r.panic = NoPanic =>
             /\ id \notin DOMAIN after.owner_of
             /\ id \in after.burned_nfts

\* A live token held by an address other than the contract owner, with an
\* operator of that holder that is also the token's approved spender: holder
\* and operator are refused, the contract owner is not.
C10_Witness ==
    \E id \in Live, b \in Address :
       LET holder == storage.owner_of[id].address IN
       /\ holder # ContractOwner /\ b # ContractOwner /\ b # holder
       /\ OperatorApproved(storage, holder, b)
       /\ ApprovedSpender(storage, id, b)
       /\ burn(storage, holder, id).panic = "NotAuthorized"
       /\ burn(storage, b, id).panic = "NotAuthorized"
       /\ burn(storage, ContractOwner, id).panic = NoPanic

\* ------------------------------------------------------------------ C11
\* C11: approve fails with UnknownToken when the id is not live and with
\* NotAuthorized unless the caller is the owner of the id or an operator of
\* that owner (being the approved spender is not enough); on success the
\* Approval Entry of the id is the new spender and nothing else, so the
\* previous spender is no longer approved and no other entry has changed.
C11_ApproveAuthorization ==
    \A caller \in Address, spender \in Address, id \in TokenIds :
       LET r     == approve(storage, caller, spender, id)
           after == save(storage, r)
       IN
       /\ id \notin Live => r.panic = "UnknownToken"
       /\ id \in Live =>
             LET owner == storage.owner_of[id].address IN
             /\ r.panic = NoPanic <=>
                   (caller = owner \/ OperatorApproved(storage, owner, caller))
             /\ r.panic # NoPanic => r.panic = "NotAuthorized"
             /\ r.panic = NoPanic =>
                   /\ \A s \in Address : ApprovedSpender(after, id, s) <=> s = spender
                   /\ \A other \in DOMAIN after.get_approved \ {id} :
                         ApprovedSpender(storage, other, after.get_approved[other])
                   /\ DOMAIN after.get_approved = DOMAIN storage.get_approved \cup {id}

\* A token whose approved spender is neither its owner nor an operator of
\* its owner: the spender's own approve is refused, the owner's approve for
\* another address replaces the spender.
C11_Witness ==
    \E id \in DOMAIN storage.get_approved, s2 \in Address :
       LET s     == storage.get_approved[id]
           owner == storage.owner_of[id].address
           r     == approve(storage, owner, s2, id)
       IN /\ s # owner /\ s2 # s /\ ~OperatorApproved(storage, owner, s)
          /\ approve(storage, s, s2, id).panic = "NotAuthorized"
          /\ r.panic = NoPanic
          /\ ApprovedSpender(r.contract, id, s2) /\ ~ApprovedSpender(r.contract, id, s)

\* ------------------------------------------------------------------ C12
\* The contract without its operator approvals.
TokenState(c) ==
    [current_token_id |-> c.current_token_id, minted_total |-> c.minted_total,
     balance_of |-> c.balance_of, owner_of |-> c.owner_of,
     get_approved |-> c.get_approved, burned_nfts |-> c.burned_nfts]

\* A call has left the operator approvals as they were.
KeepsOperatorApprovals(r) ==
    save(storage, r).is_approved_for_all = storage.is_approved_for_all

\* C12: set_operator_approval always succeeds and sets only
\* OperatorApproval[caller][operator]: the entries of every other owner and
\* of every other operator of the caller, and all token state, stay as they
\* were; mint, mint_with_id, burn, approve and transfer leave every operator
\* approval as it was.
C12_OperatorApprovalsIndependent ==
    [](
    /\ \A caller \in Address, operator \in Address, approved \in BOOLEAN :
          LET r     == set_approval_for_all(storage, caller, operator, approved)
              after == save(storage, r)
          IN
          /\ r.panic = NoPanic
          /\ OperatorApproved(after, caller, operator) <=> approved
          /\ TokenState(after) = TokenState(storage)
          /\ \A o \in Address \ {caller} :
                /\ o \in DOMAIN after.is_approved_for_all
                      <=> o \in DOMAIN storage.is_approved_for_all
                /\ o \in DOMAIN storage.is_approved_for_all =>
                      after.is_approved_for_all[o] = storage.is_approved_for_all[o]
          /\ \A p \in Address \ {operator} :
                /\ OperatorApproved(after, caller, p) <=> OperatorApproved(storage, caller, p)
                /\ (caller \in DOMAIN storage.is_approved_for_all
                      /\ p \in DOMAIN storage.is_approved_for_all[caller])
                   => (p \in DOMAIN after.is_approved_for_all[caller]
                       /\ after.is_approved_for_all[caller][p] =
                             storage.is_approved_for_all[caller][p])
    /\ EveryMint(KeepsOperatorApprovals) /\ EveryMintWithId(KeepsOperatorApprovals)
    /\ EveryBurn(KeepsOperatorApprovals) /\ EveryApprove(KeepsOperatorApprovals)
    /\ EveryTransfer(KeepsOperatorApprovals)
    )

\* An owner with an approved operator that holds a token: naming a second
\* operator keeps the first, and a transfer by the first operator keeps the
\* approval.
C12_Witness ==
    \E o \in Address, p \in Address, q \in Address, id \in Live :
       LET r == set_approval_for_all(storage, o, q, TRUE)
           t == transfer_from(storage, p, o, q, id)
       IN /\ p # q /\ p # o /\ q # o
          /\ OperatorApproved(storage, o, p)
          /\ ~OperatorApproved(storage, o, q)
          /\ OperatorApproved(r.contract, o, p) /\ OperatorApproved(r.contract, o, q)
          /\ t.panic = NoPanic /\ OperatorApproved(t.contract, o, p)

\* ------------------------------------------------------------------ C13
\* The collection of address a in contract c, empty when a has none.
Collection(c, a) == IF a \in DOMAIN c.balance_of THEN c.balance_of[a] ELSE <<>>

\* The ids whose Reverse Index entry differs between contracts c and d.
Moved(c, d, ids) == {x \in ids : d.owner_of[x] # c.owner_of[x]}

\* C13: removing a live id (the removal of burn and of transfer) leaves the
\* collection and the recorded positions of every other address as they
\* were; the affected collection gets shorter by exactly one, and at most
\* one other id gets a new recorded position: the one that was last, which
\* is recorded at the slot it now occupies.
C13_RemovalIsLocal ==
    \A id \in Live :
       LET owner == storage.owner_of[id].address
           pos   == storage.owner_of[id].token_idx
           coll  == storage.balance_of[owner]
           r     == internal_remove_token(storage, id)
           after == r.contract
           rest  == Live \ {id}
       IN
       /\ r.panic = NoPanic
       /\ burn(storage, ContractOwner, id).contract.balance_of = after.balance_of
       /\ burn(storage, ContractOwner, id).contract.owner_of = after.owner_of
       /\ DOMAIN after.balance_of = DOMAIN storage.balance_of
       /\ DOMAIN after.owner_of = rest
       /\ \A a \in DOMAIN storage.balance_of \ {owner} :
             after.balance_of[a] = storage.balance_of[a]
       /\ \A x \in rest :
             storage.owner_of[x].address # owner => after.owner_of[x] = storage.owner_of[x]
       /\ Len(after.balance_of[owner]) = Len(coll) - 1
       /\ Cardinality(Moved(storage, after, rest)) <= 1
       /\ \A x \in Moved(storage, after, rest) :
             /\ x = coll[Len(coll)]
             /\ after.owner_of[x] = OwnerInfo(owner, pos)
             /\ after.balance_of[owner][pos + 1] = x

\* The first of two ids of one collection is about to be removed while
\* another address holds a token: the second id moves to slot 0.
C13_Witness ==
    \E id \in Live, a \in DOMAIN storage.balance_of :
       LET owner == storage.owner_of[id].address
           after == internal_remove_token(storage, id).contract
       IN /\ a # owner /\ Len(storage.balance_of[a]) > 0
          /\ storage.owner_of[id].token_idx = 0
          /\ Len(storage.balance_of[owner]) = 2
          /\ Moved(storage, after, Live \ {id}) = {storage.balance_of[owner][2]}

\* ------------------------------------------------------------------ C14
\* C14: round trip: for an id that is not live, add(owner, id) followed by
\* remove(id) gives back balance_of(owner) and the contents and order of
\* owner's collection, leaves no Reverse Index entry for id and changes no
\* other id's entry (nor any other collection).
C14_AddRemoveRoundTrip ==
    \A owner \in Address, id \in TokenIds \ Live :
       LET added == internal_add_token_to(storage, owner, id)
           r     == internal_remove_token(added, id)
           after == r.contract
       IN
       /\ balance_of(added, owner) = balance_of(storage, owner) + 1
       /\ r.panic = NoPanic
       /\ balance_of(after, owner) = balance_of(storage, owner)
       /\ Collection(after, owner) = Collection(storage, owner)
       /\ \A a \in Address \ {owner} :
             /\ a \in DOMAIN after.balance_of <=> a \in DOMAIN storage.balance_of
             /\ Collection(after, a) = Collection(storage, a)
       /\ id \notin DOMAIN after.owner_of
       /\ after.owner_of = storage.owner_of

\* An owner that holds two tokens and an id that is not live, which the add
\* puts at the end of the owner's collection.
C14_Witness ==
    \E owner \in Address, id \in TokenIds \ Live :
       LET added == internal_add_token_to(storage, owner, id) IN
       /\ balance_of(storage, owner) = 2
       /\ added.owner_of[id] = OwnerInfo(owner, 2)
       /\ internal_remove_token(added, id).contract.balance_of = storage.balance_of

\* ------------------------------------------------------------------ C15
\* C15: swap-with-last: removing the id at position pos of a collection c of
\* length n gives, when pos < n-1, c with slot pos overwritten by c[n-1] and
\* the last slot dropped, and when pos = n-1, c without its last slot; every
\* id that remains is recorded at the slot it occupies.  In particular, with
\* 1, 2, 3 minted to an address, burning 2 gives [1, 3] with 1 at position
\* 0, 3 at position 1 and a balance of 2.
C15_SwapWithLast ==
    /\ \A id \in Live :
          LET owner == storage.owner_of[id].address
              pos   == storage.owner_of[id].token_idx
              c     == storage.balance_of[owner]
              n     == Len(c)
              after == internal_remove_token(storage, id).contract
              d     == after.balance_of[owner]
          IN
          /\ pos < n - 1 => d = SubSeq(c, 1, pos) \o <<c[n]>> \o SubSeq(c, pos + 2, n - 1)
          /\ pos = n - 1 => d = SubSeq(c, 1, n - 1)
          /\ \A i \in 1..Len(d) : after.owner_of[d[i]] = OwnerInfo(owner, i - 1)
    /\ \A a \in DOMAIN storage.balance_of :
          storage.balance_of[a] = <<1, 2, 3>> =>
             LET after == save(storage, burn(storage, ContractOwner, 2)) IN
             /\ after.balance_of[a] = <<1, 3>>
             /\ after.owner_of[1].token_idx = 0
             /\ after.owner_of[3].token_idx = 1
             /\ balance_of(after, a) = 2

\* A collection of three ids whose first is about to be burned: the last
\* takes its slot and the middle one stays.
C15_Witness ==
    \E id \in Live :
       LET owner == storage.owner_of[id].address
           c     == storage.balance_of[owner]
           after == save(storage, burn(storage, ContractOwner, id))
       IN /\ Len(c) = 3 /\ c[1] = id
          /\ after.balance_of[owner] = <<c[3], c[2]>>

\* ------------------------------------------------------------------ C16
\* C16: transfer checks UnknownToken, then OwnerMismatch, then NotAuthorized:
\* for an id that is not live it fails with UnknownToken whatever the caller
\* and from; for a live id with from other than its owner it fails with
\* OwnerMismatch whatever the caller, authorized or not; the state stays as
\* it was in both cases.
C16_TransferCheckOrder ==
    [](
    \A caller \in Address, from \in Address, to \in Address, id \in TokenIds :
       LET r == transfer_from(storage, caller, from, to, id) IN
       /\ id \notin Live => (r.panic = "UnknownToken" /\ save(storage, r) = storage)
       /\ (id \in Live /\ from # storage.owner_of[id].address) =>
             (r.panic = "OwnerMismatch" /\ save(storage, r) = storage)
    )

\* A live token with an approved spender: named with a wrong from, the
\* spender, the owner and a caller with no right all get OwnerMismatch, and
\* an id that is not live gets UnknownToken.
C16_Witness ==
    \E id \in DOMAIN storage.get_approved, from \in Address, x \in Address :
       LET owner == storage.owner_of[id].address
           s     == storage.get_approved[id]
       IN /\ from # owner /\ s # owner /\ x # owner /\ x # s
          /\ ~OperatorApproved(storage, owner, x)
          /\ transfer_from(storage, s, from, x, id).panic = "OwnerMismatch"
          /\ transfer_from(storage, owner, from, x, id).panic = "OwnerMismatch"
          /\ transfer_from(storage, x, from, x, id).panic = "OwnerMismatch"
          /\ \E dead \in Burned :
                transfer_from(storage, owner, owner, x, dead).panic = "UnknownToken"

\* ------------------------------------------------------------------ C17
RECURSIVE SumBalances(_)
SumBalances(S) ==
    IF S = {} THEN 0
    ELSE LET a == CHOOSE x \in S : TRUE IN
         balance_of(storage, a) + SumBalances(S \ {a})

\* C17: balance_of(a) is the number of live ids whose Reverse Index owner is
\* a (0 for an address that never held a token), and the balances add up to
\* the number of live ids.
C17_BalanceCountsLiveIds ==
    /\ \A a \in Address :
          balance_of(storage, a) =
             Cardinality({id \in Live : storage.owner_of[id].address = a})
    /\ \A a \in Address \ DOMAIN storage.balance_of : balance_of(storage, a) = 0
    /\ SumBalances(Address) = Cardinality(Live)

\* One address holds two tokens, one has held tokens and lost them all, and
\* one never held any.
C17_Witness ==
    \E a \in Address, b \in Address, n \in Address :
       /\ balance_of(storage, a) = 2
       /\ b \in DOMAIN storage.balance_of /\ balance_of(storage, b) = 0
       /\ n \notin DOMAIN storage.balance_of

\* ------------------------------------------------------------------ C18
\* A mint has added one to minted_total if it succeeded, nothing if not.
AddsOneIfMinted(r) ==
    save(storage, r).minted_total =
       storage.minted_total + (IF r.panic = NoPanic THEN 1 ELSE 0)

\* A call has left minted_total as it was.
KeepsMintedTotal(r) == save(storage, r).minted_total = storage.minted_total

\* C18: minted_total is the number of live ids plus the number of burned
\* ids: every successful mint and mint_with_id adds exactly one, and burn,
\* transfer, approve and set_operator_approval leave it as it was.
C18_MintedTotalCountsAllocations ==
    [](
    /\ storage.minted_total = Cardinality(Live) + Cardinality(Burned)
    /\ EveryMint(AddsOneIfMinted) /\ EveryMintWithId(AddsOneIfMinted)
    /\ EveryBurn(KeepsMintedTotal) /\ EveryApprove(KeepsMintedTotal)
    /\ EveryOperatorApproval(KeepsMintedTotal) /\ EveryTransfer(KeepsMintedTotal)
    )

\* Two ids are burned, one is live and a burn of the live one is about to
\* succeed: minted_total is 3 before and after.
C18_Witness ==
    /\ Cardinality(Burned) = 2
    /\ storage.minted_total = 3
    /\ \E id \in Live :
          LET r == burn(storage, ContractOwner, id) IN
          r.panic = NoPanic /\ r.contract.minted_total = 3

\* ------------------------------------------------------------------ C19
\* C19: an Approval Entry exists only for a live id: approve writes an entry
\* only for a live id and burn removes the entry of the id it burns.
C19_ApprovalsOnlyForLiveIds ==
    /\ DOMAIN storage.get_approved \subseteq Live
    /\ \A caller \in Address, spender \in Address, id \in TokenIds \ Live :
          save(storage, approve(storage, caller, spender, id)).get_approved
             = storage.get_approved
    /\ \A id \in Live :
          LET after == save(storage, burn(storage, ContractOwner, id)) IN
          /\ id \notin DOMAIN after.get_approved
          /\ DOMAIN after.get_approved \subseteq DOMAIN after.owner_of

\* One id is already burned and a live id with an approved spender is about
\* to be burned, which takes its entry away.
C19_Witness ==
    /\ Burned # {}
    /\ \E id \in DOMAIN storage.get_approved :
          LET r == burn(storage, ContractOwner, id) IN
          r.panic = NoPanic /\ id \notin DOMAIN r.contract.get_approved

\* ------------------------------------------------------------------ C20
\* A call has left the cursor where it was.
KeepsCursor(r) == save(storage, r).current_token_id = storage.current_token_id

\* A mint returns an id above the cursor and leaves the cursor on it; no
\* other call moves the cursor.
C20_MintAboveCursor ==
    /\ \A to \in Address :
          LET r == mint_to(storage, to) IN
          r.panic = NoPanic =>
             \E id \in TokenIds :
                /\ r.ret = Ret(id)
                /\ id > storage.current_token_id
                /\ save(storage, r).current_token_id = id
    /\ EveryMintWithId(KeepsCursor) /\ EveryBurn(KeepsCursor) /\ EveryApprove(KeepsCursor)
    /\ EveryOperatorApproval(KeepsCursor) /\ EveryTransfer(KeepsCursor)

\* The cursor does not go down, and a step that moves it is a successful
\* mint that returns the new value of the cursor.
C20_CursorStep ==
    /\ storage'.current_token_id >= storage.current_token_id
    /\ storage'.current_token_id # storage.current_token_id =>
          \E to \in Address :
             LET r == mint_to(storage, to) IN
             /\ r.panic = NoPanic
             /\ storage' = r.contract
             /\ r.ret = Ret(storage'.current_token_id)

\* C20: next_allocation_cursor never decreases and only a successful mint
\* changes it; the ids returned by successive successful mints are strictly
\* increasing whatever mint_with_id, burn and transfer calls come between,
\* so mint hands out no id below the cursor.
C20_CursorOnlyAdvances ==
    /\ []C20_MintAboveCursor
    /\ [][C20_CursorStep]_vars

\* The cursor has moved, the id it stands on was burned since, id 0 below
\* it was never allocated, and the next mint returns the id above it.
C20_Witness ==
    /\ storage.current_token_id > 0
    /\ storage.current_token_id \in Burned
    /\ 0 \notin Live \cup Burned
    /\ \E to \in Receivers :
          LET r == mint_to(storage, to) IN
          r.panic = NoPanic /\ r.ret = Ret(storage.current_token_id + 1)

====
